---- MODULE Spec2Model ----
(***************************************************************************)
(* Model of cargo-spellcheck's checker dispatch (src/checker/mod.rs) and   *)
(* of its markup-aware reflow (src/reflow/mod.rs).                         *)
(*                                                                         *)
(* Four specifications share the variables:                                *)
(*   Spec       one pass of the dispatch function `check`                  *)
(*   SpecInner  calls of the pure function `reflow_inner`                  *)
(*   SpecReflow the event loop of `reflow` over one chunk                  *)
(*   SpecTokenize  one run of `tokenize` over a text                       *)
(***************************************************************************)
EXTENDS Integers, Sequences, FiniteSets, TLC

VARIABLES
    \* ---- dispatch (checker/mod.rs) ----
    features,     \* the checker kinds compiled into the build (cargo features)
    config,       \* top-level Config: detector -> sub-configuration present?
    reflowOut,    \* what Reflow::check returns for the document
    outcome,      \* what each called checker's `check` returned (None: not called)
    pc,           \* position inside `check`
    at,           \* index of the next invoke_checker! expansion
    collective,   \* the running SuggestionSet
    invoked,      \* the checkers whose `check` was called, in call order
    sorts,        \* how many times collective.sort() ran
    sortedAt,     \* value of `at` when the sort ran (0: not yet)
    returned,     \* what `check` returned (None while running)
    previous,     \* history: the results of an earlier pass on the same input
    \* ---- one call of reflow_inner (reflow/mod.rs) ----
    call,         \* the arguments of the call
    result,       \* what the call returned (NotCalled before the call)
    \* ---- the event loop of reflow over one chunk (reflow/mod.rs) ----
    chunk,        \* the CheckableChunk and cfg.max_line_length
    pos,          \* parser: offset up to which the text is consumed
    open,         \* parser: the tags opened and not yet closed, outermost first
    tags,         \* parser: how many start events it has emitted
    paragraph,    \* start of the paragraph being accumulated
    unbreakable_stack,
    unbreakables,
    acc,          \* the suggestions collected so far
    constructs,   \* history: the covers of the inline constructs started
    lastStore,    \* history: the latest call of store_suggestion
    noSpan,       \* history: how many non-empty Ranges had no covering Span
    status,       \* "running", or "panicked" after a failed expect / slice
    \* ---- one run of tokenize (checker/mod.rs) ----
    input,        \* the &str, as its sequence of chars
    c_idx,        \* index of the char the loop is at
    started,
    linear_start,
    bananasplit,  \* the Ranges pushed so far
    tpc           \* "loop", "end" (after the loop) or "done" (returned)

dvars == <<features, config, reflowOut, outcome, pc, at, collective, invoked, sorts, sortedAt, returned,
          previous>>

ivars == <<call, result>>

rvars == <<chunk, pos, open, tags, paragraph, unbreakable_stack, unbreakables, acc,
           constructs, lastStore, noSpan, status>>

tvars == <<input, c_idx, started, linear_start, bananasplit, tpc>>

vars == <<dvars, ivars, rvars, tvars>>

\* what a dispatch pass leaves alone
notDispatch == <<ivars, rvars, tvars>>

\* what a call of reflow_inner leaves alone
notInner == <<dvars, rvars, tvars>>

\* what the event loop of reflow leaves alone
notReflow == <<dvars, ivars, tvars>>

\* what a run of tokenize leaves alone
notTokenize == <<dvars, ivars, rvars>>


\* ------------------------------------------------------------------------
\* Bounds
\* ------------------------------------------------------------------------
MaxOrigin == 2
MaxSpan == 2
MaxLen == 6       \* longest text handed to reflow_inner
MaxWidth == 4     \* largest max_line_width
MaxWords == 3     \* most words in the text of a chunk given to reflow
MaxTags == 3      \* most start events of a run of the parser
MaxChars == 4     \* most chars of a text given to tokenize

Origins == 1..MaxOrigin
SpanStarts == 1..MaxSpan

\* ------------------------------------------------------------------------
\* Detectors and the fixed order of the invoke_checker! calls in `check`
\* ------------------------------------------------------------------------
Detector == {"LanguageTool", "NlpRules", "Hunspell", "Reflow"}

CheckOrder == <<"LanguageTool", "NlpRules", "Hunspell">>

\* mutant: the reflow engine dispatched as a fourth checker
CheckOrder_WithReflow == <<"LanguageTool", "NlpRules", "Hunspell", "Reflow">>

\* the invoke_checker! expansions of `check`, in source order
DispatchedOrder == CheckOrder

None == [tag |-> "None"]

\* ------------------------------------------------------------------------
\* SuggestionSet: an insertion-ordered map origin -> list of suggestions,
\* kept as a sequence of entries [origin, suggs].
\* ------------------------------------------------------------------------
Suggestion(d, o, s) == [detector |-> d, origin |-> o, span |-> s]

SuggestionSetNew == <<>>

RECURSIVE IndexOfOrigin(_, _, _)
IndexOfOrigin(set, o, i) ==
    IF i > Len(set) THEN 0
    ELSE IF set[i].origin = o THEN i
    ELSE IndexOfOrigin(set, o, i + 1)

\* extend(origin, suggestions): append to the origin's list, or add the origin
Extend(set, o, suggs) ==
    LET i == IndexOfOrigin(set, o, 1) IN
    IF i = 0 THEN Append(set, [origin |-> o, suggs |-> suggs])
    ELSE [set EXCEPT ![i].suggs = @ \o suggs]

RECURSIVE Join(_, _)
Join(set, other) ==
    IF other = <<>> THEN set
    ELSE Join(Extend(set, Head(other).origin, Head(other).suggs), Tail(other))

RECURSIVE TotalCount(_)
TotalCount(set) ==
    IF set = <<>> THEN 0 ELSE Len(Head(set).suggs) + TotalCount(Tail(set))

\* stable insertion of x into a list sorted by key
RECURSIVE InsertBySpan(_, _)
InsertBySpan(sorted, x) ==
    IF sorted = <<>> THEN <<x>>
    ELSE IF x.span < Head(sorted).span THEN <<x>> \o sorted
    ELSE <<Head(sorted)>> \o InsertBySpan(Tail(sorted), x)

RECURSIVE SortBySpan(_)
SortBySpan(suggs) ==
    IF suggs = <<>> THEN <<>>
    ELSE InsertBySpan(SortBySpan(SubSeq(suggs, 1, Len(suggs) - 1)), suggs[Len(suggs)])

RECURSIVE InsertByOrigin(_, _)
InsertByOrigin(sorted, e) ==
    IF sorted = <<>> THEN <<e>>
    ELSE IF e.origin < Head(sorted).origin THEN <<e>> \o sorted
    ELSE <<Head(sorted)>> \o InsertByOrigin(Tail(sorted), e)

RECURSIVE SortByOrigin(_)
SortByOrigin(set) ==
    IF set = <<>> THEN <<>>
    ELSE InsertByOrigin(SortByOrigin(SubSeq(set, 1, Len(set) - 1)), set[Len(set)])

SortSet(set) ==
    SortByOrigin([i \in 1..Len(set) |->
        [origin |-> set[i].origin, suggs |-> SortBySpan(set[i].suggs)]])

\* all suggestions of a set, flattened in iteration order
RECURSIVE Flatten(_)
Flatten(set) ==
    IF set = <<>> THEN <<>> ELSE Head(set).suggs \o Flatten(Tail(set))

SuggestionsOf(set) == {Flatten(set)[i] : i \in 1..Len(Flatten(set))}

\* canonical order: origins ascending, spans ascending within an origin
IsCanonical(set) ==
    /\ \A i \in 1..Len(set) - 1 : set[i].origin < set[i + 1].origin
    /\ \A i \in 1..Len(set) :
         \A j \in 1..Len(set[i].suggs) - 1 :
            set[i].suggs[j].span <= set[i].suggs[j + 1].span

\* ------------------------------------------------------------------------
\* What a checker's `check` may return for the document: a failure, or a
\* SuggestionSet of at most one suggestion tagged with its own detector.
\* ------------------------------------------------------------------------
CheckerResults(d) ==
    {[ok |-> FALSE, set |-> <<>>], [ok |-> TRUE, set |-> <<>>]}
    \cup {[ok |-> TRUE, set |-> <<[origin |-> o, suggs |-> <<Suggestion(d, o, s)>>]>>] :
            o \in Origins, s \in SpanStarts}

\* mutant: every detector is enabled, whatever the Config holds
IsEnabled_Always(cfg, d) == TRUE

\* Config::is_enabled(detector)
IsEnabled(cfg, d) == cfg[d]

\* cfg!(feature = $feature): the three backends are behind cargo features,
\* the reflow module is always compiled
FeatureGated == {"LanguageTool", "NlpRules", "Hunspell"}

CompiledIn(d) == d \notin FeatureGated \/ d \in features

\* the variables of a specification that does not use them
DispatchIdle ==
    /\ features = {}
    /\ config = [d \in Detector |-> FALSE]
    /\ reflowOut = None
    /\ outcome = [d \in Detector |-> None]
    /\ pc = "idle"
    /\ at = 0
    /\ collective = SuggestionSetNew
    /\ invoked = <<>>
    /\ sorts = 0
    /\ sortedAt = 0
    /\ returned = None
    /\ previous = None

NotCalled == [tag |-> "NotCalled"]

InnerIdle ==
    /\ call = None
    /\ result = NotCalled

ReflowIdle ==
    /\ chunk = None
    /\ pos = 0
    /\ open = <<>>
    /\ tags = 0
    /\ paragraph = 0
    /\ unbreakable_stack = <<>>
    /\ unbreakables = <<>>
    /\ acc = <<>>
    /\ constructs = {}
    /\ lastStore = NotCalled
    /\ noSpan = 0
    /\ status = "idle"

TokenizeIdle ==
    /\ input = <<>>
    /\ c_idx = 0
    /\ started = FALSE
    /\ linear_start = 0
    /\ bananasplit = <<>>
    /\ tpc = "idle"

\* ------------------------------------------------------------------------
\* Dispatch: pub fn check
\* ------------------------------------------------------------------------
DispatchInit ==
    /\ features \in SUBSET FeatureGated
    /\ config \in [Detector -> BOOLEAN]
    /\ reflowOut \in {r \in CheckerResults("Reflow") : r.ok}
    /\ outcome = [d \in Detector |-> None]
    /\ pc = "invoke"
    /\ at = 1
    /\ collective = SuggestionSetNew
    /\ invoked = <<>>
    /\ sorts = 0
    /\ sortedAt = 0
    /\ returned = None
    /\ previous = None

\* T::check(documentation, config): the backends are external, Reflow::check
\* is the one checker of this repository. In a second pass over the same
\* document and Config (CheckAgain) a backend gives the result it gave in the
\* first pass.
CheckOf(d) ==
    IF d = "Reflow" THEN {reflowOut}
    ELSE IF previous # None /\ previous.outcome[d] # None THEN {previous.outcome[d]}
    ELSE CheckerResults(d)

Advance ==
    /\ at' = at + 1
    /\ pc' = IF at = Len(DispatchedOrder) THEN "sort" ELSE "invoke"

\* mutant: the failure of T::check is swallowed instead of propagated by `?`
InvokeCheckerInner_SwallowErr(d) ==
    IF ~config[d]
    THEN /\ pc' = "panicked"
         /\ UNCHANGED <<at, collective, invoked, outcome, returned>>
    ELSE \E r \in CheckOf(d) :
         /\ invoked' = Append(invoked, d)
         /\ outcome' = [outcome EXCEPT ![d] = r]
         /\ collective' = IF r.ok THEN Join(collective, r.set) ELSE collective
         /\ Advance
         /\ UNCHANGED returned

\* mutant: the collective is overwritten by the checker's set instead of joined
InvokeCheckerInner_Overwrite(d) ==
    IF ~config[d]
    THEN /\ pc' = "panicked"
         /\ UNCHANGED <<at, collective, invoked, outcome, returned>>
    ELSE \E r \in CheckOf(d) :
         /\ invoked' = Append(invoked, d)
         /\ outcome' = [outcome EXCEPT ![d] = r]
         /\ IF r.ok
            THEN /\ collective' = r.set
                 /\ Advance
                 /\ UNCHANGED returned
            ELSE /\ pc' = "failed"
                 /\ returned' = [tag |-> "Err", by |-> d]
                 /\ UNCHANGED <<at, collective>>

\* invoke_checker_inner::<T>: the sub-configuration must be present, then
\* T::check(documentation, config)? and collective.join(suggestions)
InvokeCheckerInner(d) ==
    IF ~config[d]
    THEN /\ pc' = "panicked"
         /\ UNCHANGED <<at, collective, invoked, outcome, returned>>
    ELSE \E r \in CheckOf(d) :
         /\ invoked' = Append(invoked, d)
         /\ outcome' = [outcome EXCEPT ![d] = r]
         /\ IF r.ok
            THEN /\ collective' = Join(collective, r.set)
                 /\ Advance
                 /\ UNCHANGED returned
            ELSE /\ pc' = "failed"
                 /\ returned' = [tag |-> "Err", by |-> d]
                 /\ UNCHANGED <<at, collective>>

\* mutant: a checker disabled by configuration ends the loop over the checkers
InvokeChecker_SkipEndsPass ==
    /\ pc = "invoke"
    /\ LET d == DispatchedOrder[at] IN
       IF ~CompiledIn(d)
       THEN /\ Advance
            /\ UNCHANGED <<collective, invoked, outcome, returned>>
       ELSE IF IsEnabled(config, d)
       THEN InvokeCheckerInner(d)
       ELSE /\ at' = Len(DispatchedOrder) + 1
            /\ pc' = "sort"
            /\ UNCHANGED <<collective, invoked, outcome, returned>>
    /\ UNCHANGED <<notDispatch, previous, features, config, reflowOut, sorts, sortedAt>>

\* one expansion of the invoke_checker! macro
InvokeChecker ==
    /\ pc = "invoke"
    /\ LET d == DispatchedOrder[at] IN
       IF ~CompiledIn(d)
       THEN /\ Advance
            /\ UNCHANGED <<collective, invoked, outcome, returned>>
       ELSE IF IsEnabled(config, d)
       THEN InvokeCheckerInner(d)
       ELSE /\ Advance
            /\ UNCHANGED <<collective, invoked, outcome, returned>>
    /\ UNCHANGED <<notDispatch, previous, features, config, reflowOut, sorts, sortedAt>>

\* mutant: the collective is returned as joined, without the sort
SortCollective_NoSort ==
    /\ pc = "sort"
    /\ collective' = collective
    /\ sorts' = sorts + 1
    /\ sortedAt' = at
    /\ pc' = "return"
    /\ UNCHANGED <<notDispatch, previous, features, config, reflowOut, outcome, at, invoked, returned>>

\* mutant: the sort may leave the collective in the order of the joins
SortCollective_Sometimes ==
    /\ pc = "sort"
    /\ collective' \in {SortSet(collective), collective}
    /\ sorts' = sorts + 1
    /\ sortedAt' = at
    /\ pc' = "return"
    /\ UNCHANGED <<notDispatch, previous, features, config, reflowOut, outcome, at, invoked, returned>>

\* collective.sort()
SortCollective ==
    /\ pc = "sort"
    /\ collective' = SortSet(collective)
    /\ sorts' = sorts + 1
    /\ sortedAt' = at
    /\ pc' = "return"
    /\ UNCHANGED <<notDispatch, previous, features, config, reflowOut, outcome, at, invoked, returned>>

Return ==
    /\ pc = "return"
    /\ returned' = [tag |-> "Ok", set |-> collective]
    /\ pc' = "done"
    /\ UNCHANGED <<notDispatch, previous, features, config, reflowOut, outcome, at, collective, invoked, sorts, sortedAt>>

\* ------------------------------------------------------------------------
\* Helpers for the dispatch claims
\* ------------------------------------------------------------------------
InvokedSet == {invoked[i] : i \in 1..Len(invoked)}

PositionOf(d) == CHOOSE i \in 1..Len(CheckOrder) : CheckOrder[i] = d

Failed(d) == outcome[d] # None /\ ~outcome[d].ok

Succeeded(d) == outcome[d] # None /\ outcome[d].ok

RECURSIVE SumCounts(_)
SumCounts(ds) ==
    IF ds = {} THEN 0
    ELSE LET d == CHOOSE x \in ds : TRUE
         IN TotalCount(outcome[d].set) + SumCounts(ds \ {d})

\* the caller runs `check` a second time on the same document and Config
CheckAgain ==
    /\ pc \in {"done", "failed"}
    /\ previous = None
    /\ previous' = [outcome |-> outcome, returned |-> returned]
    /\ outcome' = [d \in Detector |-> None]
    /\ pc' = "invoke"
    /\ at' = 1
    /\ collective' = SuggestionSetNew
    /\ invoked' = <<>>
    /\ sorts' = 0
    /\ sortedAt' = 0
    /\ returned' = None
    /\ UNCHANGED <<notDispatch, features, config, reflowOut>>

Next ==
    \/ InvokeChecker
    \/ SortCollective
    \/ Return
    \/ CheckAgain

Init ==
    /\ DispatchInit
    /\ InnerIdle
    /\ ReflowIdle
    /\ TokenizeIdle

Spec == Init /\ [][Next]_vars

\* ------------------------------------------------------------------------
\* Text: a str is a sequence of characters; offsets are 0-based and a Range
\* [start, end) has an exclusive end. The alphabet is ASCII, so byte and
\* character offsets agree.
\* ------------------------------------------------------------------------
Alphabet == {"a", " ", "\n"}

IsWhitespace(c) == c \in {" ", "\n"}

Range(a, b) == [start |-> a, end |-> b]

\* &s[range]
Slice(s, r) == SubSeq(s, r.start + 1, r.end)

RECURSIVE TextsOfLen(_)
TextsOfLen(n) ==
    IF n = 0 THEN {<<>>}
    ELSE {Append(t, c) : t \in TextsOfLen(n - 1), c \in Alphabet}

TextsUpTo(n) == UNION {TextsOfLen(k) : k \in 0..n}

\* a.saturating_sub(b)
SaturatingSub(a, b) == IF a > b THEN a - b ELSE 0

\* " ".repeat(n)
RECURSIVE Spaces(_)
Spaces(n) == IF n <= 0 THEN <<>> ELSE <<" ">> \o Spaces(n - 1)

\* str::split('\n')
RECURSIVE SplitNewline(_, _)
SplitNewline(s, cur) ==
    IF s = <<>> THEN <<cur>>
    ELSE IF Head(s) = "\n" THEN <<cur>> \o SplitNewline(Tail(s), <<>>)
    ELSE SplitNewline(Tail(s), Append(cur, Head(s)))

\* str::lines(): the lines without their terminator; a final empty line
\* (the text after the last newline, or an empty text) is no line
Lines(s) ==
    LET parts == SplitNewline(s, <<>>) IN
    IF parts[Len(parts)] = <<>> THEN SubSeq(parts, 1, Len(parts) - 1) ELSE parts

\* mutant: only a trailing newline is found and stripped
StripSuffix_OnlyNewline(s, suffix) ==
    IF suffix = <<"\n">> /\ Len(s) >= 1 /\ s[Len(s)] = "\n"
    THEN [tag |-> "Some", value |-> SubSeq(s, 1, Len(s) - 1)]
    ELSE None

\* str::strip_suffix
StripSuffix(s, suffix) ==
    IF /\ Len(suffix) <= Len(s)
       /\ SubSeq(s, Len(s) - Len(suffix) + 1, Len(s)) = suffix
    THEN [tag |-> "Some", value |-> SubSeq(s, 1, Len(s) - Len(suffix))]
    ELSE None

\* ------------------------------------------------------------------------
\* CommentVariant: the decoration of a line of the comment
\* ------------------------------------------------------------------------
Variants == {"TripleSlash", "DoubleSlashEM", "MacroDocEq", "CommonMark"}

PrefixString(v) ==
    CASE v = "TripleSlash" -> <<"/", "/", "/", " ">>
      [] v = "DoubleSlashEM" -> <<"/", "/", "!", " ">>
      [] v = "MacroDocEq" -> <<"#", "[", "d", "=", "\"">>
      [] OTHER -> <<>>

PrefixLen(v) ==
    CASE v = "TripleSlash" -> Len(PrefixString(v)) - 1
      [] v = "DoubleSlashEM" -> Len(PrefixString(v)) - 1
      [] OTHER -> Len(PrefixString(v))

SuffixString(v) == IF v = "MacroDocEq" THEN <<"\"", "]">> ELSE <<>>

\* ------------------------------------------------------------------------
\* Tokeneer and Gluon (reflow/iter.rs): words, unbreakable units, greedy fill
\* ------------------------------------------------------------------------
\* the Ranges of the maximal runs of non-whitespace characters of s
RECURSIVE TokensFrom(_, _, _)
TokensFrom(s, i, start) ==
    \* i: 0-based offset of the next character; start: offset of the open
    \* token, or -1
    IF i = Len(s)
    THEN IF start >= 0 THEN <<Range(start, i)>> ELSE <<>>
    ELSE IF IsWhitespace(s[i + 1])
    THEN (IF start >= 0 THEN <<Range(start, i)>> ELSE <<>>) \o TokensFrom(s, i + 1, -1)
    ELSE TokensFrom(s, i + 1, IF start >= 0 THEN start ELSE i)

Tokens(s) == TokensFrom(s, 0, -1)

Overlaps(r, u) == r.start < u.end /\ u.start < r.end

\* the unit under construction (tokens first..last) and the token t belong
\* together when one unbreakable Range overlaps both
Glued(unit, t, ubs) ==
    \E k \in 1..Len(ubs) :
        /\ Overlaps(t, ubs[k])
        /\ \E j \in 1..Len(unit) : Overlaps(unit[j], ubs[k])

\* the tokens grouped into undividable units: a unit is a sequence of tokens
RECURSIVE UnitsFrom(_, _, _, _)
UnitsFrom(tokens, i, unit, ubs) ==
    IF i > Len(tokens)
    THEN IF unit = <<>> THEN <<>> ELSE <<unit>>
    ELSE IF unit = <<>>
    THEN UnitsFrom(tokens, i + 1, <<tokens[i]>>, ubs)
    ELSE IF Glued(unit, tokens[i], ubs)
    THEN UnitsFrom(tokens, i + 1, Append(unit, tokens[i]), ubs)
    ELSE <<unit>> \o UnitsFrom(tokens, i + 1, <<tokens[i]>>, ubs)

Units(s, ubs) == UnitsFrom(Tokens(s), 1, <<>>, ubs)

\* the words of a unit, separated by single spaces
RECURSIVE UnitText(_, _)
UnitText(s, unit) ==
    IF unit = <<>> THEN <<>>
    ELSE IF Len(unit) = 1 THEN Slice(s, unit[1])
    ELSE Slice(s, unit[1]) \o <<" ">> \o UnitText(s, Tail(unit))

UnitLen(s, unit) == Len(UnitText(s, unit))

\* a line is a sequence of units, separated by single spaces
RECURSIVE LineText(_, _)
LineText(s, line) ==
    IF line = <<>> THEN <<>>
    ELSE IF Len(line) = 1 THEN UnitText(s, line[1])
    ELSE UnitText(s, line[1]) \o <<" ">> \o LineText(s, Tail(line))

LineLen(s, line) == Len(LineText(s, line))

\* the indentation that counts against the width of output line i (from 0):
\* the i-th, or the last one once they are exhausted
IndentAt(indentations, i) ==
    IF indentations = <<>> THEN 0
    ELSE IF i < Len(indentations) THEN indentations[i + 1]
    ELSE indentations[Len(indentations)]

\* Gluon::next over all units: a unit joins the current line, after a single
\* space, while indentation + line + 1 + unit <= max_line_width; otherwise
\* the line is closed and the unit starts the next one
RECURSIVE Fill(_, _, _, _, _, _)
Fill(s, units, i, cur, done, env) ==
    IF i > Len(units)
    THEN IF cur = <<>> THEN done ELSE Append(done, cur)
    ELSE IF cur = <<>>
    THEN Fill(s, units, i + 1, <<units[i]>>, done, env)
    ELSE IF IndentAt(env.indentations, Len(done)) + LineLen(s, cur) + 1
              + UnitLen(s, units[i]) <= env.max
    THEN Fill(s, units, i + 1, Append(cur, units[i]), done, env)
    ELSE Fill(s, units, i + 1, <<units[i]>>, Append(done, cur), env)

\* Gluon::new(s, max_line_width, indentations) with add_unbreakables: the
\* output lines, each a sequence of units of s
GluonLines(s, max, indentations, ubs) ==
    Fill(s, Units(s, ubs), 1, <<>>, <<>>,
         [max |-> max, indentations |-> indentations])

\* ------------------------------------------------------------------------
\* reflow_inner
\* ------------------------------------------------------------------------
\* the unbreakable ranges made relative to the paragraph
RelativeUnbreakables(unbreakable_ranges, range) ==
    [k \in 1..Len(unbreakable_ranges) |->
        Range(SaturatingSub(unbreakable_ranges[k].start, range.start),
              SaturatingSub(unbreakable_ranges[k].end, range.start))]

\* mutant: the unbreakable ranges are dropped
ProducedLines_NoUnbreakables(s, range, unbreakable_ranges, indentations, max_line_width) ==
    GluonLines(Slice(s, range), max_line_width, indentations, <<>>)

\* mutant: the gluon is built with a width one too large
ProducedLines_WidthPlusOne(s, range, unbreakable_ranges, indentations, max_line_width) ==
    GluonLines(Slice(s, range), max_line_width + 1, indentations,
               RelativeUnbreakables(unbreakable_ranges, range))

\* the lines the gluon yields for the paragraph, as sequences of units of
\* s_absolute
ProducedLines(s, range, unbreakable_ranges, indentations, max_line_width) ==
    GluonLines(Slice(s, range), max_line_width, indentations,
               RelativeUnbreakables(unbreakable_ranges, range))

\* mutant: the first line is compared like the later ones
ReflowApplied_FirstLikeLater(original, produced) ==
    \E i \in 1..Len(produced) : i <= Len(original) /\ original[i] = produced[i]

\* reflow_applied: the first produced line differs from the first original
\* line (lines.next() != Some(&content)), or a later produced line equals
\* the original line at its index (lines.next() == Some(&content))
ReflowApplied(original, produced) ==
    \/ original = <<>> \/ original[1] # produced[1]
    \/ \E i \in 2..Len(produced) : i <= Len(original) /\ original[i] = produced[i]

\* mutant: the fold does not append the suffix to a later line
RECURSIVE FoldLines_NoSuffix(_, _, _, _, _)
FoldLines_NoSuffix(folded, contents, i, indentations, variant) ==
    IF i > Len(contents) THEN folded
    ELSE LET pre == IF i - 1 <= Len(indentations)
                    THEN Spaces(SaturatingSub(indentations[i - 1], PrefixLen(variant)))
                    ELSE Spaces(SaturatingSub(indentations[Len(indentations)],
                                              PrefixLen(variant)))
         IN FoldLines_NoSuffix(folded \o pre \o PrefixString(variant) \o contents[i]
                                   \o <<"\n">>,
                               contents, i + 1, indentations, variant)

\* the fold: line i (from 1, the second output line) is indentation, prefix,
\* content, suffix and a newline; `indents` is consumed from its first entry
RECURSIVE FoldLines(_, _, _, _, _)
FoldLines(folded, contents, i, indentations, variant) ==
    IF i > Len(contents) THEN folded
    ELSE LET pre == IF i - 1 <= Len(indentations)
                    THEN Spaces(SaturatingSub(indentations[i - 1], PrefixLen(variant)))
                    ELSE Spaces(SaturatingSub(indentations[Len(indentations)],
                                              PrefixLen(variant)))
         IN FoldLines(folded \o pre \o PrefixString(variant) \o contents[i]
                          \o SuffixString(variant) \o <<"\n">>,
                      contents, i + 1, indentations, variant)

ReflowInner(s, range, unbreakable_ranges, indentations, max_line_width, variant) ==
    IF range.start > range.end \/ range.end > Len(s)
    THEN [tag |-> "Panic", why |-> "slice out of bounds"]
    ELSE IF indentations = <<>>
    THEN [tag |-> "Panic", why |-> "Must contain one indentation"]
    ELSE
    LET s_absolute == Slice(s, range)
        gluon == ProducedLines(s, range, unbreakable_ranges, indentations, max_line_width)
        produced == [i \in 1..Len(gluon) |-> LineText(s_absolute, gluon[i])]
        original == Lines(s_absolute)
    IN  IF gluon = <<>>
        THEN [tag |-> "Panic", why |-> "Must contain one line"]
        ELSE
        LET first == produced[1] \o SuffixString(variant) \o <<"\n">>
            folded == FoldLines(first, produced, 2, indentations, variant)
            no_newline == StripSuffix(folded, <<"\n">>)
        IN  IF no_newline = None
            THEN [tag |-> "None", gluon |-> gluon, produced |-> produced,
                  original |-> original]
            ELSE
            LET stripped == StripSuffix(no_newline.value, SuffixString(variant))
                content == IF stripped # None THEN stripped.value ELSE no_newline.value
            IN  IF ReflowApplied(original, produced)
                THEN [tag |-> "Some", value |-> content, gluon |-> gluon,
                      produced |-> produced, original |-> original]
                ELSE [tag |-> "None", gluon |-> gluon, produced |-> produced,
                      original |-> original]

\* ------------------------------------------------------------------------
\* Calls of reflow_inner on a whole text, as tests::verify_reflow_inner makes
\* them (range = 0..len, no unbreakables, one indentation repeated)
\* ------------------------------------------------------------------------
IndentColumns == {0, 1}

InnerCalls ==
    [s : TextsUpTo(MaxLen),
     indentations : {<<c>> : c \in IndentColumns}
                        \cup {<<c, d>> : c \in IndentColumns, d \in IndentColumns},
     max : 1..MaxWidth,
     variant : {"TripleSlash", "MacroDocEq", "CommonMark"}]

InnerInit ==
    /\ DispatchIdle
    /\ ReflowIdle
    /\ TokenizeIdle
    /\ call \in InnerCalls
    /\ result = NotCalled

CallReflowInner ==
    /\ call # None
    /\ result = NotCalled
    /\ result' = ReflowInner(call.s, Range(0, Len(call.s)), <<>>, call.indentations,
                             call.max, call.variant)
    /\ UNCHANGED <<notInner, call>>

NextInner ==
    \/ CallReflowInner

SpecInner == InnerInit /\ [][NextInner]_vars

\* ------------------------------------------------------------------------
\* CheckableChunk: the text and its mapping to the source. The literals of a
\* `///` or `//!` comment are one per line; the other variants are one
\* literal over all lines. `indent` is the column at which a literal starts.
\* ------------------------------------------------------------------------
Ch(text, o) == text[o + 1]

NonWs(text, o) == ~IsWhitespace(Ch(text, o))

LineOf(text, o) == Cardinality({k \in 0..o - 1 : Ch(text, k) = "\n"})

LineStart(text, o) ==
    LET breaks == {k \in 0..o - 1 : Ch(text, k) = "\n"} IN
    IF breaks = {} THEN 0
    ELSE 1 + CHOOSE k \in breaks : \A j \in breaks : j <= k

OneLiteralPerLine(v) == v \in {"TripleSlash", "DoubleSlashEM"}

\* the position in the source of the character at offset o
LineColumnOf(ck, o) ==
    [line |-> 1 + LineOf(ck.text, o),
     column |-> (IF OneLiteralPerLine(ck.variant) \/ LineOf(ck.text, o) = 0
                 THEN ck.indent ELSE 0) + (o - LineStart(ck.text, o))]

\* the mapped segments: the Ranges of the chunk's text that come from one
\* literal each, in document order
RECURSIVE LineSegments(_, _, _)
LineSegments(lines, k, from) ==
    IF k > Len(lines) THEN <<>>
    ELSE (IF lines[k] = <<>> THEN <<>> ELSE <<Range(from, from + Len(lines[k]))>>)
         \o LineSegments(lines, k + 1, from + Len(lines[k]) + 1)

\* the offset after the first n lines of the text
RECURSIVE SkipLines(_, _, _)
SkipLines(text, n, o) ==
    IF n = 0 \/ o >= Len(text) THEN o
    ELSE IF Ch(text, o) = "\n" THEN SkipLines(text, n - 1, o + 1)
    ELSE SkipLines(text, n, o + 1)

\* Seq::filter: the Ranges of the sequence that start at or after `from`
RECURSIVE StartingFrom(_, _)
StartingFrom(segs, from) ==
    IF segs = <<>> THEN <<>>
    ELSE (IF Head(segs).start >= from THEN <<Head(segs)>> ELSE <<>>)
         \o StartingFrom(Tail(segs), from)

\* the source mapping of a chunk whose first `gap` lines have no mapped
\* literal: the Ranges of the text that map to a Span, in document order
SourceMapping(text, variant, gap) ==
    IF OneLiteralPerLine(variant)
    THEN StartingFrom(LineSegments(Lines(text), 1, 0), SkipLines(text, gap, 0))
    ELSE IF SkipLines(text, gap, 0) >= Len(text) THEN <<>>
    ELSE <<Range(SkipLines(text, gap, 0), Len(text))>>

\* the end of the run of non-whitespace characters that holds offset o
RECURSIVE RunEnd(_, _)
RunEnd(text, o) ==
    IF o >= Len(text) THEN o
    ELSE IF NonWs(text, o) THEN RunEnd(text, o + 1) ELSE o

\* a source mapping with one fragment per word, as the chunk's constructor
\* accepts it: the words of one line are several fragments of that line
RECURSIVE WordSegments(_, _)
WordSegments(text, o) ==
    IF o >= Len(text) THEN <<>>
    ELSE IF NonWs(text, o)
         THEN <<Range(o, RunEnd(text, o))>> \o WordSegments(text, RunEnd(text, o))
         ELSE WordSegments(text, o + 1)

Segments(ck) == ck.mapping

Max2(a, b) == IF a > b THEN a ELSE b

Min2(a, b) == IF a < b THEN a ELSE b

RECURSIVE SpansOver(_, _, _, _)
SpansOver(ck, segs, k, range) ==
    IF k > Len(segs) THEN <<>>
    ELSE (IF range.start < range.end /\ Overlaps(range, segs[k])
          THEN <<[start |-> LineColumnOf(ck, Max2(range.start, segs[k].start)),
                  end |-> LineColumnOf(ck, Min2(range.end, segs[k].end) - 1)]>>
          ELSE <<>>)
         \o SpansOver(ck, segs, k + 1, range)

\* chunk.find_covered_spans(range): the Spans of the mapped segments the
\* Range overlaps, in document order
FindCoveredSpans(ck, range) == SpansOver(ck, Segments(ck), 1, range)

\* ------------------------------------------------------------------------
\* store_suggestion
\* ------------------------------------------------------------------------
RECURSIVE Repeat(_, _)
Repeat(x, n) == IF n <= 0 THEN <<>> ELSE <<x>> \o Repeat(x, n - 1)

\* one indentation per line of every covered span: the span's start column
RECURSIVE Indentations(_)
Indentations(spans) ==
    IF spans = <<>> THEN <<>>
    ELSE Repeat(Head(spans).start.column, Head(spans).end.line - Head(spans).start.line + 1)
         \o Indentations(Tail(spans))

\* mutant: the start column is incremented for every variant
StoreSuggestion_QuirkAlways(ck, para, end, unbreakable_ranges, max_line_width) ==
    LET range == Range(para, end)
        spans == FindCoveredSpans(ck, range)
    IN  IF spans = <<>>
        THEN [tag |-> "Err", p |-> para, range |-> range, stack |-> unbreakable_ranges,
              inner |-> NotCalled]
        ELSE
        LET span_start == spans[1]
            span_end == spans[Len(spans)]
            quirk == 1
            span == [start |-> [line |-> span_start.start.line,
                                column |-> span_start.start.column + quirk],
                     end |-> span_end.end]
            indentations == Indentations(spans)
            inner == ReflowInner(ck.text, range, unbreakable_ranges, indentations,
                                 max_line_width, ck.variant)
        IN  IF inner.tag = "Some"
            THEN [tag |-> "Ok", p |-> end, range |-> range, stack |-> unbreakable_ranges,
                  inner |-> inner,
                  suggestion |-> [detector |-> "Reflow", range |-> range,
                                  replacements |-> <<inner.value>>, span |-> span]]
            ELSE IF inner.tag = "None"
            THEN [tag |-> "Err", p |-> end, range |-> range, stack |-> unbreakable_ranges,
                  inner |-> inner]
            ELSE [tag |-> "Panic", p |-> para, range |-> range, stack |-> unbreakable_ranges,
                  inner |-> inner]

StoreSuggestion(ck, para, end, unbreakable_ranges, max_line_width) ==
    LET range == Range(para, end)
        spans == FindCoveredSpans(ck, range)
    IN  IF spans = <<>>
        THEN [tag |-> "Err", p |-> para, range |-> range, stack |-> unbreakable_ranges,
              inner |-> NotCalled]
        ELSE
        LET span_start == spans[1]
            span_end == spans[Len(spans)]
            quirk == IF ck.variant \in {"TripleSlash", "DoubleSlashEM"} THEN 1 ELSE 0
            span == [start |-> [line |-> span_start.start.line,
                                column |-> span_start.start.column + quirk],
                     end |-> span_end.end]
            indentations == Indentations(spans)
            inner == ReflowInner(ck.text, range, unbreakable_ranges, indentations,
                                 max_line_width, ck.variant)
        IN  IF inner.tag = "Some"
            THEN [tag |-> "Ok", p |-> end, range |-> range, stack |-> unbreakable_ranges,
                  inner |-> inner,
                  suggestion |-> [detector |-> "Reflow", range |-> range,
                                  replacements |-> <<inner.value>>, span |-> span]]
            ELSE IF inner.tag = "None"
            THEN [tag |-> "Err", p |-> end, range |-> range, stack |-> unbreakable_ranges,
                  inner |-> inner]
            ELSE [tag |-> "Panic", p |-> para, range |-> range, stack |-> unbreakable_ranges,
                  inner |-> inner]

\* ------------------------------------------------------------------------
\* reflow: one action per arm of the match over the parser's events. The
\* parser (pulldown_cmark, external) is the source of the events: it emits
\* well-nested start and end events in document order, each with the Range
\* it covers.
\* ------------------------------------------------------------------------
Words(n) == {t \in TextsOfLen(2 * n - 1) :
                \A i \in 1..Len(t) : (i % 2 = 1) <=> (t[i] = "a")}

ChunkTexts == UNION {Words(n) : n \in 1..MaxWords}

Chunks ==
    {[text |-> t, indent |-> 1, variant |-> v, max |-> m,
      mapping |-> SourceMapping(t, v, g)] :
        t \in ChunkTexts, v \in {"TripleSlash", "MacroDocEq"}, m \in {1, 4}, g \in {0, 1}}
    \cup
    {[text |-> t, indent |-> 1, variant |-> "MacroDocEq", max |-> m,
      mapping |-> WordSegments(t, 0)] : t \in ChunkTexts, m \in {1, 4}}

ReflowInit ==
    /\ DispatchIdle
    /\ InnerIdle
    /\ TokenizeIdle
    /\ chunk \in Chunks
    /\ pos = 0
    /\ open = <<>>
    /\ tags = 0
    /\ paragraph = 0
    /\ unbreakable_stack = <<>>
    /\ unbreakables = <<>>
    /\ acc = <<>>
    /\ constructs = {}
    /\ lastStore = NotCalled
    /\ noSpan = 0
    /\ status = "running"

Top == open[Len(open)]

\* the end of the innermost open element, or of the text
Limit == IF open = <<>> THEN Len(chunk.text) ELSE Top.end

\* block elements and paragraphs start at the top level or inside a block
AtBlockLevel == IF open = <<>> THEN TRUE ELSE Top.kind = "Block"

\* the covers a start event of the kind may carry
StartCovers(kind) ==
    {r \in [start : pos..Limit, end : pos..Limit] :
        /\ r.start < r.end
        /\ NonWs(chunk.text, r.start)
        /\ CASE kind = "Inline" ->
                  /\ NonWs(chunk.text, r.end - 1)
                  /\ IF open = <<>> THEN TRUE
                     ELSE Top.kind = "Inline" => r.end < Limit
             [] OTHER ->
                  \/ r.end = Limit /\ NonWs(chunk.text, r.end - 1)
                  \/ /\ Ch(chunk.text, r.end - 1) = "\n"
                     /\ r.end - r.start >= 2
                     /\ NonWs(chunk.text, r.end - 2)}

\* the frame of an event that does not flush a paragraph
NoStore == UNCHANGED <<acc, lastStore, noSpan, status>>

\* store_suggestion found no Span covering a non-empty Range
IsNoSpan(r) == r.tag = "Err" /\ r.inner = NotCalled /\ r.range.start < r.range.end

\* mutant: a Range without a covering Span aborts the reflow of the chunk
Store_NoSpanAborts(end) ==
    /\ lastStore' = StoreSuggestion(chunk, paragraph, end, unbreakable_stack, chunk.max)
    /\ noSpan' = IF IsNoSpan(lastStore') THEN noSpan + 1 ELSE noSpan
    /\ IF lastStore'.tag = "Panic" \/ IsNoSpan(lastStore')
       THEN /\ status' = "panicked"
            /\ UNCHANGED <<paragraph, acc, unbreakable_stack>>
       ELSE /\ paragraph' = lastStore'.p
            /\ acc' = IF lastStore'.tag = "Ok"
                      THEN Append(acc, lastStore'.suggestion) ELSE acc
            /\ unbreakable_stack' = <<>>
            /\ UNCHANGED status

\* mutant: the cursor moves only when a suggestion was stored
Store_CursorStaysOnErr(end) ==
    /\ lastStore' = StoreSuggestion(chunk, paragraph, end, unbreakable_stack, chunk.max)
    /\ noSpan' = IF IsNoSpan(lastStore') THEN noSpan + 1 ELSE noSpan
    /\ IF lastStore'.tag = "Panic"
       THEN /\ status' = "panicked"
            /\ UNCHANGED <<paragraph, acc, unbreakable_stack>>
       ELSE /\ paragraph' = IF lastStore'.tag = "Ok" THEN lastStore'.p ELSE paragraph
            /\ acc' = IF lastStore'.tag = "Ok"
                      THEN Append(acc, lastStore'.suggestion) ELSE acc
            /\ unbreakable_stack' = <<>>
            /\ UNCHANGED status

\* the three store_suggestion call sites share their match on the result
Store(end) ==
    /\ lastStore' = StoreSuggestion(chunk, paragraph, end, unbreakable_stack, chunk.max)
    /\ noSpan' = IF IsNoSpan(lastStore') THEN noSpan + 1 ELSE noSpan
    /\ IF lastStore'.tag = "Panic"
       THEN /\ status' = "panicked"
            /\ UNCHANGED <<paragraph, acc, unbreakable_stack>>
       ELSE /\ paragraph' = lastStore'.p
            /\ acc' = IF lastStore'.tag = "Ok"
                      THEN Append(acc, lastStore'.suggestion) ELSE acc
            /\ unbreakable_stack' = <<>>
            /\ UNCHANGED status

\* Event::Start(Image | Link | Strong | Emphasis | Strikethrough)
StartInline ==
    /\ status = "running"
    /\ open # <<>> /\ tags < MaxTags
    /\ \E cover \in StartCovers("Inline") :
         /\ unbreakable_stack' = Append(unbreakable_stack, cover)
         /\ constructs' = constructs \cup {cover}
         /\ open' = Append(open, [kind |-> "Inline", start |-> cover.start, end |-> cover.end])
         /\ pos' = cover.start + 1
         /\ tags' = tags + 1
    /\ NoStore
    /\ UNCHANGED <<notReflow, chunk, paragraph, unbreakables>>

\* mutant: the cursor is set to the end of the paragraph's cover
StartParagraph_CursorAtEnd ==
    /\ status = "running"
    /\ AtBlockLevel /\ tags < MaxTags
    /\ \E cover \in StartCovers("Paragraph") :
         /\ paragraph' = cover.end
         /\ open' = Append(open, [kind |-> "Paragraph", start |-> cover.start, end |-> cover.end])
         /\ pos' = cover.start
         /\ tags' = tags + 1
    /\ NoStore
    /\ UNCHANGED <<notReflow, chunk, unbreakable_stack, unbreakables, constructs>>

\* Event::Start(Tag::Paragraph)
StartParagraph ==
    /\ status = "running"
    /\ AtBlockLevel /\ tags < MaxTags
    /\ \E cover \in StartCovers("Paragraph") :
         /\ paragraph' = cover.start
         /\ open' = Append(open, [kind |-> "Paragraph", start |-> cover.start, end |-> cover.end])
         /\ pos' = cover.start
         /\ tags' = tags + 1
    /\ NoStore
    /\ UNCHANGED <<notReflow, chunk, unbreakable_stack, unbreakables, constructs>>

\* Event::Start of any other tag (heading, code block, list, item, ...)
StartOther ==
    /\ status = "running"
    /\ AtBlockLevel /\ tags < MaxTags
    /\ \E cover \in StartCovers("Block") :
         /\ open' = Append(open, [kind |-> "Block", start |-> cover.start, end |-> cover.end])
         /\ pos' = cover.start
         /\ tags' = tags + 1
    /\ Store(paragraph)
    /\ UNCHANGED <<notReflow, chunk, unbreakables, constructs>>

\* Range::contains
Contains(r, o) == r.start <= o /\ o < r.end

\* the debug assertions of the end of an unbreakable construct
ParentContains(cover) ==
    IF Len(unbreakable_stack) <= 1 THEN TRUE
    ELSE /\ Contains(unbreakable_stack[Len(unbreakable_stack)], cover.start)
         /\ Contains(unbreakable_stack[Len(unbreakable_stack)], cover.end - 1)

\* Event::End(Image | Link | Strong | Emphasis | Strikethrough); a failing
\* debug assertion panics in a build with debug assertions and is skipped
\* in a build without them
EndInline ==
    /\ status = "running"
    /\ open # <<>> /\ Top.kind = "Inline"
    /\ \/ /\ unbreakables' = IF Len(unbreakable_stack) = 1
                              THEN Append(unbreakables, Range(Top.start, Top.end))
                              ELSE unbreakables
          /\ open' = SubSeq(open, 1, Len(open) - 1)
          /\ pos' = Top.end
          /\ UNCHANGED status
       \/ /\ ~ParentContains(Range(Top.start, Top.end))
          /\ status' = "panicked"
          /\ UNCHANGED <<unbreakables, open, pos>>
    /\ UNCHANGED <<acc, lastStore, noSpan>>
    /\ UNCHANGED <<notReflow, chunk, tags, paragraph, unbreakable_stack, constructs>>

\* Event::End(Tag::Paragraph)
EndParagraph ==
    /\ status = "running"
    /\ open # <<>> /\ Top.kind = "Paragraph"
    /\ open' = SubSeq(open, 1, Len(open) - 1)
    /\ pos' = Top.end
    /\ Store(Top.end)
    /\ UNCHANGED <<notReflow, chunk, tags, unbreakables, constructs>>

\* Event::End of any other tag
EndOther ==
    /\ status = "running"
    /\ open # <<>> /\ Top.kind = "Block"
    /\ paragraph' = Top.end
    /\ open' = SubSeq(open, 1, Len(open) - 1)
    /\ pos' = Top.end
    /\ NoStore
    /\ UNCHANGED <<notReflow, chunk, tags, unbreakable_stack, unbreakables, constructs>>

NoOpEvents ==
    {"Text", "Code", "Html", "FootnoteReference", "SoftBreak", "Rule", "TaskListMarker"}

\* mutant: a no-op event moves the paragraph cursor to its end
NoOpEvent_MovesCursor ==
    /\ status = "running"
    /\ \E ev \in NoOpEvents, b \in pos + 1..Limit :
         /\ ev \in {"Text", "Code", "FootnoteReference", "SoftBreak", "TaskListMarker"}
               => open # <<>>
         /\ ev = "Rule" => AtBlockLevel
         /\ IF ev = "SoftBreak"
            THEN b = pos + 1 /\ Ch(chunk.text, pos) = "\n"
            ELSE IF b = Limit THEN TRUE ELSE Ch(chunk.text, b) = "\n"
         /\ pos' = b
         /\ paragraph' = b
    /\ NoStore
    /\ UNCHANGED <<notReflow, chunk, tags, open, unbreakable_stack, unbreakables,
                   constructs>>

\* Event::Text, Code, Html, FootnoteReference, SoftBreak, Rule, TaskListMarker
NoOpEvent ==
    /\ status = "running"
    /\ \E ev \in NoOpEvents, b \in pos + 1..Limit :
         /\ ev \in {"Text", "Code", "FootnoteReference", "SoftBreak", "TaskListMarker"}
               => open # <<>>
         /\ ev = "Rule" => AtBlockLevel
         /\ IF ev = "SoftBreak"
            THEN b = pos + 1 /\ Ch(chunk.text, pos) = "\n"
            ELSE IF b = Limit THEN TRUE ELSE Ch(chunk.text, b) = "\n"
         /\ pos' = b
    /\ NoStore
    /\ UNCHANGED <<notReflow, chunk, tags, open, paragraph, unbreakable_stack, unbreakables,
                   constructs>>

\* Event::HardBreak: its cover ends after the newline, and text of the same
\* element follows
HardBreak ==
    /\ status = "running"
    /\ open # <<>>
    /\ \E e \in pos + 1..Limit - 1 :
         /\ e >= 2
         /\ Ch(chunk.text, e - 1) = "\n"
         /\ NonWs(chunk.text, e - 2)
         /\ pos' = e
         /\ Store(e)
    /\ UNCHANGED <<notReflow, chunk, tags, open, unbreakables, constructs>>

\* Ok(acc): the parser has no more events
ReflowReturn ==
    /\ status = "running"
    /\ open = <<>>
    /\ pos = Len(chunk.text)
    /\ status' = "returned"
    /\ UNCHANGED <<notReflow, chunk, tags, pos, open, paragraph, unbreakable_stack, unbreakables,
                   acc, constructs, lastStore, noSpan>>

NextReflow ==
    \/ StartInline
    \/ StartParagraph
    \/ StartOther
    \/ EndInline
    \/ EndParagraph
    \/ EndOther
    \/ NoOpEvent
    \/ HardBreak
    \/ ReflowReturn

SpecReflow == ReflowInit /\ [][NextReflow]_vars

\* ------------------------------------------------------------------------
\* tokenize: one action per iteration of the loop over the chars, one for
\* the code after the loop. A &str is modelled as its sequence of chars;
\* "ue" stands for a char of two bytes in UTF-8 (such as u-umlaut), every
\* other char of the model is one byte.
\* ------------------------------------------------------------------------
TokChars == {"a", "ue", " ", ","}

\* char::len_utf8
LenUtf8(c) == IF c = "ue" THEN 2 ELSE 1

Blacklist ==
    {"\"", ";", ":", ",", ".", "?", "!", "#", "(", ")", "{", "}", "[", "]", "-",
     "\n", "\r", "/", "grave"}    \* "grave": the grave accent

IsIgnoreChar(c) == IsWhitespace(c) \/ c \in Blacklist

\* the byte offset char_indices reports for the char at index k (from 0)
RECURSIVE ByteOffset(_, _)
ByteOffset(str, k) ==
    IF k = 0 THEN 0 ELSE ByteOffset(str, k - 1) + LenUtf8(str[k])

TokenizeTexts == UNION {[1..n -> TokChars] : n \in 0..MaxChars}

TokenizeInit ==
    /\ DispatchIdle
    /\ InnerIdle
    /\ ReflowIdle
    /\ input \in TokenizeTexts
    /\ c_idx = 0
    /\ started = FALSE
    /\ linear_start = 0
    /\ bananasplit = <<>>
    /\ tpc = "loop"

\* mutant: an ignored char pushes a Range whether or not a token is open
TokenizeIgnoreChar_PushAlways ==
    /\ tpc = "loop"
    /\ c_idx < Len(input)
    /\ IsIgnoreChar(input[c_idx + 1])
    /\ bananasplit' = Append(bananasplit, Range(linear_start, c_idx))
    /\ started' = FALSE
    /\ c_idx' = c_idx + 1
    /\ UNCHANGED <<notTokenize, input, linear_start, tpc>>

\* an iteration at an ignored char: closes the open token, if any
TokenizeIgnoreChar ==
    /\ tpc = "loop"
    /\ c_idx < Len(input)
    /\ IsIgnoreChar(input[c_idx + 1])
    /\ bananasplit' = IF started
                       THEN Append(bananasplit, Range(linear_start, c_idx))
                       ELSE bananasplit
    /\ started' = FALSE
    /\ c_idx' = c_idx + 1
    /\ UNCHANGED <<notTokenize, input, linear_start, tpc>>

\* an iteration at any other char: opens a token unless one is open
TokenizeWordChar ==
    /\ tpc = "loop"
    /\ c_idx < Len(input)
    /\ ~IsIgnoreChar(input[c_idx + 1])
    /\ linear_start' = IF started THEN linear_start ELSE c_idx
    /\ started' = TRUE
    /\ c_idx' = c_idx + 1
    /\ UNCHANGED <<notTokenize, input, bananasplit, tpc>>

\* the end the code gives the token that is open at the end of the string:
\* the byte index of the last char, plus one
FinalEnd(str) == ByteOffset(str, Len(str) - 1) + 1

\* after the loop: the open token is closed, and the Ranges are returned
TokenizeEnd ==
    /\ tpc = "loop"
    /\ c_idx = Len(input)
    /\ bananasplit' = IF started /\ input # <<>>
                       THEN Append(bananasplit, Range(linear_start, FinalEnd(input)))
                       ELSE bananasplit
    /\ tpc' = "done"
    /\ UNCHANGED <<notTokenize, input, c_idx, started, linear_start>>

NextTokenize ==
    \/ TokenizeIgnoreChar
    \/ TokenizeWordChar
    \/ TokenizeEnd

SpecTokenize == TokenizeInit /\ [][NextTokenize]_vars

\* ========================================================================
\* Claims about the dispatch (specification Spec)
\* ========================================================================

\* C1: when an enabled checker's check fails, `check` returns that failure at
\* once: the failing checker is the last one called, no checker later in the
\* order languagetool, nlprules, hunspell has run, the collective was not
\* sorted and no SuggestionSet is returned.
C1_FailureAbortsPass ==
    \A d \in Detector :
        Failed(d) =>
            /\ pc = "failed"
            /\ returned = [tag |-> "Err", by |-> d]
            /\ invoked # <<>> /\ invoked[Len(invoked)] = d
            /\ \A e \in FeatureGated :
                  PositionOf(e) > PositionOf(d) => outcome[e] = None /\ e \notin InvokedSet
            /\ sorts = 0

\* C1 witness: a checker failed after an earlier one had contributed
\* suggestions and while a later one was compiled in and enabled.
C1_Witness ==
    /\ pc = "failed"
    /\ Failed("NlpRules")
    /\ Succeeded("LanguageTool") /\ TotalCount(collective) > 0
    /\ CompiledIn("Hunspell") /\ IsEnabled(config, "Hunspell")

\* C2: a checker whose is_enabled is false is never called and none of its
\* suggestions is in the collective or in the returned set; on a pass that
\* returns a set every compiled-in, enabled checker was called.
C2_DisabledNeverRun ==
    /\ \A d \in FeatureGated :
          ~IsEnabled(config, d) =>
             /\ d \notin InvokedSet
             /\ outcome[d] = None
             /\ \A x \in SuggestionsOf(collective) : x.detector # d
             /\ returned.tag = "Ok" =>
                   \A x \in SuggestionsOf(returned.set) : x.detector # d
    /\ returned.tag = "Ok" =>
          \A d \in FeatureGated :
             CompiledIn(d) /\ IsEnabled(config, d) => d \in InvokedSet

\* C2 witness: a pass returned with the middle checker disabled by
\* configuration and both others called, each contributing a suggestion.
C2_Witness ==
    /\ returned.tag = "Ok"
    /\ CompiledIn("NlpRules") /\ ~IsEnabled(config, "NlpRules")
    /\ invoked = <<"LanguageTool", "Hunspell">>
    /\ TotalCount(returned.set) = 2

\* C3 as stated: with reflow enabled, the set returned by dispatch contains
\* the suggestions Reflow::check produces for the document.
C3_ReflowDispatched ==
    (returned.tag = "Ok" /\ IsEnabled(config, "Reflow")) =>
        SuggestionsOf(reflowOut.set) \subseteq SuggestionsOf(returned.set)

\* C3 amended: dispatch never calls Reflow::check; the returned set holds
\* suggestions of languagetool, nlprules and hunspell only, whether or not
\* reflow is enabled in the configuration.
C3_ReflowNotDispatched ==
    /\ "Reflow" \notin InvokedSet
    /\ outcome["Reflow"] = None
    /\ returned.tag = "Ok" =>
          \A x \in SuggestionsOf(returned.set) : x.detector \in FeatureGated

\* C3 witness: a pass returned suggestions while reflow was enabled and
\* Reflow::check would have produced a suggestion.
C3_Witness ==
    /\ returned.tag = "Ok"
    /\ IsEnabled(config, "Reflow")
    /\ TotalCount(reflowOut.set) > 0
    /\ TotalCount(returned.set) > 0

\* C4: the collective's total count is the sum of the total counts of the
\* sets returned by the checkers called so far, so on success the returned
\* set has as many suggestions as the enabled checkers returned together and
\* holds each of them.
C4_TotalCountIsSum ==
    /\ pc # "failed" => TotalCount(collective) = SumCounts(InvokedSet)
    /\ returned.tag = "Ok" =>
          /\ TotalCount(returned.set) = SumCounts(InvokedSet)
          /\ \A d \in InvokedSet :
                SuggestionsOf(outcome[d].set) \subseteq SuggestionsOf(returned.set)

\* C4 witness: three checkers each returned a suggestion for the same origin
\* and the same span, and all three are in the returned set.
C4_Witness ==
    /\ returned.tag = "Ok"
    /\ Len(invoked) = 3
    /\ \A d \in InvokedSet :
          outcome[d].set = <<[origin |-> 1, suggs |-> <<Suggestion(d, 1, 1)>>]>>
    /\ TotalCount(returned.set) = 3

\* C5: the collective is sorted exactly once on a successful pass, after the
\* last invoke_checker! expansion and before the return, never on a failed
\* pass, and the returned set is in canonical order.
C5_SortedOnceBeforeReturn ==
    /\ sorts <= 1
    /\ pc \in {"invoke", "sort", "failed"} => sorts = 0
    /\ sorts = 1 => sortedAt = Len(CheckOrder) + 1
    /\ returned.tag = "Ok" =>
          /\ sorts = 1
          /\ IsCanonical(returned.set)
          /\ returned.set = SortSet(Join(Join(Join(SuggestionSetNew,
                IF Succeeded("LanguageTool") THEN outcome["LanguageTool"].set ELSE <<>>),
                IF Succeeded("NlpRules") THEN outcome["NlpRules"].set ELSE <<>>),
                IF Succeeded("Hunspell") THEN outcome["Hunspell"].set ELSE <<>>))

\* C5 witness: the joins left the collective out of canonical order (the
\* later origin first) and only two of the three checkers were called.
C5_Witness ==
    /\ returned.tag = "Ok"
    /\ Len(invoked) = 2
    /\ \E d \in InvokedSet, e \in InvokedSet :
          /\ PositionOf(d) < PositionOf(e)
          /\ TotalCount(outcome[d].set) = 1 /\ TotalCount(outcome[e].set) = 1
          /\ outcome[d].set[1].origin > outcome[e].set[1].origin

\* ========================================================================
\* Claims about reflow_inner (specification SpecInner)
\* ========================================================================
Returned == result.tag \in {"Some", "None"}

\* every produced line is the original line at the same index, and there
\* are as many of the one as of the other
SameLines ==
    /\ Len(result.produced) = Len(result.original)
    /\ \A i \in 1..Len(result.produced) : result.produced[i] = result.original[i]

\* the indentation that counted against the width of produced line i (from 1)
CallIndent(i) == IndentAt(call.indentations, i - 1)

\* C6 as stated: when every produced line equals the original line at the
\* same index, reflow_inner returns no replacement, also for a paragraph of
\* two or more lines that is already wrapped at the width.
C6_NoChurn ==
    (Returned /\ SameLines) => result.tag = "None"

\* C7 as stated: when a produced line differs from the original line at the
\* same index, the first or a later one, or the numbers of lines differ,
\* reflow_inner returns the reconstructed string.
C7_ChangedLineIsSuggested ==
    (Returned /\ ~SameLines) => result.tag = "Some"

RECURSIVE Concat(_)
Concat(seqs) == IF seqs = <<>> THEN <<>> ELSE Head(seqs) \o Concat(Tail(seqs))

\* every produced line is closed only when the next unit does not fit after
\* it, where `indent(i)` is what counts against the width besides the line
ClosedOnlyWhenFull(indent(_)) ==
    \A i \in 1..Len(result.gluon) - 1 :
        indent(i) + Len(result.produced[i]) + 1
            + UnitLen(call.s, result.gluon[i + 1][1]) > call.max

NoIndent(i) == 0

RECURSIVE LineTokens(_)
LineTokens(line) ==
    IF line = <<>> THEN <<>> ELSE Head(line) \o LineTokens(Tail(line))

\* the output lines of the last flush that carry a word of the construct c
LinesOfConstruct(c) ==
    LET lines == lastStore.inner.gluon
        from == lastStore.range.start
    IN  {l \in 1..Len(lines) :
            \E k \in 1..Len(LineTokens(lines[l])) :
                LET t == LineTokens(lines[l])[k] IN
                /\ c.start < from + t.end
                /\ from + t.start < c.end}

\* C9: no line of a produced replacement splits an emphasis, strong,
\* strikethrough, link or image construct: the words of every construct
\* (first, later sibling or nested) lie on a single output line, also for
\* paragraphs flushed at a hard break.
C9_ConstructsNotSplit ==
    lastStore.tag = "Ok" =>
        \A c \in constructs : Cardinality(LinesOfConstruct(c)) <= 1

\* ========================================================================
\* Claims about tokenize (specification SpecTokenize)
\* ========================================================================
TokenizeReturned == tpc = "done"

\* C11: for a text whose last character is not an ignore character the
\* final token's exclusive end is the number of characters of the text,
\* also when the text holds multi-byte characters, and the last word is
\* not dropped.
C11_FinalTokenEndsAtCharCount ==
    (/\ TokenizeReturned
     /\ input # <<>>
     /\ ~IsIgnoreChar(input[Len(input)]))
        => /\ bananasplit # <<>>
           /\ bananasplit[Len(bananasplit)].end = Len(input)

\* the words of a text: its maximal runs of chars that are not ignored
RECURSIVE WordsFrom(_, _, _)
WordsFrom(str, k, word) ==
    IF k > Len(str) THEN (IF word = <<>> THEN <<>> ELSE <<word>>)
    ELSE IF IsIgnoreChar(str[k])
    THEN (IF word = <<>> THEN <<>> ELSE <<word>>) \o WordsFrom(str, k + 1, <<>>)
    ELSE WordsFrom(str, k + 1, Append(word, str[k]))

WordsOf(str) == WordsFrom(str, 1, <<>>)

\* the Range, in characters, is a maximal run of chars that are not ignored
IsMaximalRun(str, r) ==
    /\ 0 <= r.start /\ r.start < r.end /\ r.end <= Len(str)
    /\ \A k \in r.start + 1..r.end : ~IsIgnoreChar(str[k])
    /\ r.start > 0 => IsIgnoreChar(str[r.start])
    /\ r.end < Len(str) => IsIgnoreChar(str[r.end + 1])

\* C12: the substrings the returned Ranges select are, in order, exactly
\* the words of the input (the input with every ignored character removed);
\* each Range is a maximal run of non-ignored characters and the i-th Range
\* selects the i-th word.
C12_RangesSelectTheWords ==
    TokenizeReturned =>
        /\ Len(bananasplit) = Len(WordsOf(input))
        /\ \A i \in 1..Len(bananasplit) :
              /\ IsMaximalRun(input, bananasplit[i])
              /\ Slice(input, bananasplit[i]) = WordsOf(input)[i]

\* C13: every returned Range is non-empty, and the Ranges are strictly
\* increasing and pairwise disjoint: each ends before the next one starts.
\* This holds at every point of the run, so also for the empty text, a text
\* of ignored characters only, and runs of consecutive ignored characters.
C13_RangesNonEmptyIncreasing ==
    /\ \A i \in 1..Len(bananasplit) : bananasplit[i].start < bananasplit[i].end
    /\ \A i \in 1..Len(bananasplit) - 1 : bananasplit[i].end < bananasplit[i + 1].start

\* C13 witness: tokenize returned two Ranges or more for a text that has
\* two ignored characters in a row.
C13_Witness ==
    /\ TokenizeReturned
    /\ Len(bananasplit) >= 2
    /\ \E k \in 1..Len(input) - 1 : IsIgnoreChar(input[k]) /\ IsIgnoreChar(input[k + 1])

\* a step that is the end event of a paragraph
IsEndParagraphStep ==
    /\ open # <<>>
    /\ open[Len(open)].kind = "Paragraph"
    /\ open' = SubSeq(open, 1, Len(open) - 1)

\* C14: when the span lookup yields no covering Span for a paragraph's
\* Range, no suggestion is emitted for it and reflow neither fails nor
\* panics (the paragraph cursor stays, the suggestions stay); and whatever
\* was skipped before, the end event of every paragraph hands the
\* paragraph's text, up to its end, to store_suggestion.
C14_NoSpanSkipsParagraph ==
    /\ [][noSpan' > noSpan =>
            /\ acc' = acc
            /\ status' = "running"
            /\ paragraph' = paragraph
            /\ unbreakable_stack' = <<>>]_vars
    /\ [][IsEndParagraphStep =>
            /\ lastStore'.range.end = open[Len(open)].end
            /\ lastStore'.range.start >= open[Len(open)].start
            /\ lastStore'.range.start = paragraph]_vars

\* C14 witness: a paragraph was skipped for lack of a covering Span, and a
\* later paragraph of the same chunk yielded a suggestion.
C14_Witness ==
    /\ noSpan >= 1
    /\ lastStore.tag = "Ok"
    /\ chunk.mapping # <<>>
    /\ chunk.mapping[1].start > 0
    /\ lastStore.range.start >= chunk.mapping[1].start
    /\ open = <<>>
    /\ acc # <<>>
    /\ acc[Len(acc)].range = lastStore.range
    /\ status = "running"

InBounds(range) ==
    /\ 0 <= range.start
    /\ range.start <= range.end
    /\ range.end <= Len(chunk.text)

\* C15: after any sequence of markup events, every Range passed to
\* store_suggestion and every Range of an emitted reflow Suggestion
\* satisfies start <= end <= length of the chunk's text.
C15_RangesInBounds ==
    /\ lastStore # NotCalled => InBounds(lastStore.range)
    /\ \A i \in 1..Len(acc) : InBounds(acc[i].range)

\* C15 witness: a suggestion was emitted, and afterwards the start of
\* another tag passed an empty Range at the end of that suggestion.
C15_Witness ==
    /\ acc # <<>>
    /\ lastStore # NotCalled
    /\ acc[Len(acc)].range.end = lastStore.range.start
    /\ lastStore.range.start = lastStore.range.end
    /\ lastStore.range.start = lastStore.range.end
    /\ lastStore.range.start > 0

ConstructsOf(range) ==
    {c \in constructs : c.start < range.end /\ range.start < c.end}

\* the constructs of the set that lie inside no other construct of the set
Outermost(cs) ==
    {c \in cs : ~\E d \in cs : d # c /\ d.start <= c.start /\ c.end <= d.end}

\* C17: the unbreakable Ranges handed to the reflow of a paragraph are
\* exactly the Ranges of the outermost emphasis, strong, strikethrough, link
\* and image constructs of the paragraph; the Ranges of constructs nested
\* inside them are not separately included.
C17_OutermostOnlyHanded ==
    (lastStore # NotCalled /\ lastStore.range.start < lastStore.range.end) =>
        /\ {lastStore.stack[k] : k \in 1..Len(lastStore.stack)}
              = Outermost(ConstructsOf(lastStore.range))
        /\ Len(lastStore.stack) = Cardinality(Outermost(ConstructsOf(lastStore.range)))

\* ========================================================================
\* Claims about the assembly of the replacement (specification SpecInner)
\* ========================================================================
\* the lines of the replacement string
OutputLines == SplitNewline(result.value, <<>>)

\* the number of spaces a line starts with
RECURSIVE LeadingSpaces(_)
LeadingSpaces(line) ==
    IF line = <<>> \/ Head(line) # " " THEN 0 ELSE 1 + LeadingSpaces(Tail(line))

\* C18: counting the first output line as line 0, every output line i >= 1
\* is indented by max(indentation[i] - prefix_length, 0) spaces, where
\* indentation[i] belongs to the i-th covered source line; past the last
\* covered line the last indentation is used.
C18_LineIndentedByItsOwn ==
    result.tag = "Some" =>
        \A i \in 1..Len(OutputLines) - 1 :
            LeadingSpaces(OutputLines[i + 1])
                = SaturatingSub(IndentAt(call.indentations, i), PrefixLen(call.variant))

\* the decoration written before output line i (from 1): nothing before the
\* first line, the indentation and the variant's prefix before a later one
LineLead(i) ==
    IF i = 1 THEN <<>>
    ELSE Spaces(SaturatingSub(IndentAt(call.indentations, i - 2), PrefixLen(call.variant)))
             \o PrefixString(call.variant)

\* C20 as stated: the first output line has no indentation and no prefix
\* but is followed by the variant's suffix; every later output line is
\* indentation, prefix, content and suffix; one newline separates the lines.
C20_EveryLineWithSuffix ==
    result.tag = "Some" =>
        /\ Len(OutputLines) = Len(result.produced)
        /\ \A i \in 1..Len(OutputLines) :
               OutputLines[i] = LineLead(i) \o result.produced[i]
                                    \o SuffixString(call.variant)

\* C20 (amended): as C20, except that the last output line, be it the first
\* or a later one, carries no suffix.
C20_LastLineWithoutSuffix ==
    result.tag = "Some" =>
        /\ Len(OutputLines) = Len(result.produced)
        /\ \A i \in 1..Len(OutputLines) :
               OutputLines[i] = LineLead(i) \o result.produced[i]
                                    \o (IF i < Len(OutputLines)
                                        THEN SuffixString(call.variant) ELSE <<>>)

\* a `#[doc = ...]` paragraph rewrapped into three lines or more
C20_Witness ==
    /\ result.tag = "Some"
    /\ call.variant = "MacroDocEq"
    /\ Len(OutputLines) >= 3

\* str::ends_with
EndsWith(s, suffix) ==
    /\ Len(suffix) <= Len(s)
    /\ SubSeq(s, Len(s) - Len(suffix) + 1, Len(s)) = suffix

\* the string the fold assembles before the final strips: every line,
\* the last one included, with the suffix and a newline
Assembled ==
    FoldLines(result.produced[1] \o SuffixString(call.variant) \o <<"\n">>,
              result.produced, 2, call.indentations, call.variant)

\* C21: a replacement ends with the content of its last output line: it has
\* no trailing newline, the variant's suffix is removed exactly once from
\* the very end and remains after every earlier line, and for a variant
\* with an empty suffix the string is otherwise unchanged.
C21_EndsWithLastContent ==
    result.tag = "Some" =>
        LET n == Len(OutputLines)
            last == result.produced[Len(result.produced)]
        IN  /\ result.value # <<>>
            /\ result.value[Len(result.value)] # "\n"
            /\ OutputLines[n] = LineLead(n) \o last
            /\ Assembled = result.value \o SuffixString(call.variant) \o <<"\n">>
            /\ \A i \in 1..n - 1 : EndsWith(OutputLines[i], SuffixString(call.variant))

\* a `#[doc = ...]` paragraph rewrapped into two lines: one suffix stays,
\* one is removed
C21_Witness ==
    /\ result.tag = "Some"
    /\ call.variant = "MacroDocEq"
    /\ Len(OutputLines) = 2
    /\ EndsWith(OutputLines[1], SuffixString(call.variant))

\* ========================================================================
\* Claims about the indentation list (specification SpecReflow)
\* ========================================================================
\* the source lines on which the Spans lie
CoveredLines(spans) ==
    UNION {spans[k].start.line..spans[k].end.line : k \in 1..Len(spans)}

\* the Spans store_suggestion found for the Range it was last handed
LastSpans ==
    IF lastStore.tag = "NotCalled" THEN <<>>
    ELSE FindCoveredSpans(chunk, lastStore.range)

\* C19: the indentation list of a paragraph has exactly one entry per
\* covered source line, each the start column of the covered Span on that
\* line, also when several Spans lie on one line or one Span covers several
\* lines; it is not empty when a covering Span exists.
C19_OneIndentationPerLine ==
    LastSpans # <<>> =>
        LET ind == Indentations(LastSpans)
            first == LastSpans[1].start.line
        IN  /\ ind # <<>>
            /\ Len(ind) = Cardinality(CoveredLines(LastSpans))
            /\ \A i \in 1..Len(ind) :
                   \E k \in 1..Len(LastSpans) :
                       /\ first + i - 1 \in LastSpans[k].start.line..LastSpans[k].end.line
                       /\ ind[i] = LastSpans[k].start.column

\* ========================================================================
\* Claims about the events of reflow (specification SpecReflow)
\* ========================================================================
\* a step that is the start event of a construct that is neither a
\* paragraph nor an unbreakable one
IsStartOtherStep ==
    /\ tags' = tags + 1
    /\ open' # <<>>
    /\ open'[Len(open')].kind = "Block"

\* C22: on the start event of a construct other than a paragraph or an
\* unbreakable one, store_suggestion is handed the Range from the paragraph
\* cursor to the start offset of that construct.
C22_StartOtherClosesParagraph ==
    [][IsStartOtherStep =>
          lastStore'.range = Range(paragraph, open'[Len(open')].start)]_vars

\* a paragraph is open: its start event has come, its end event has not
InParagraph == \E k \in 1..Len(open) : open[k].kind = "Paragraph"

\* the open paragraph
OpenParagraph == open[CHOOSE k \in 1..Len(open) : open[k].kind = "Paragraph"]

\* a step that is a hard break inside a paragraph and that does not panic
IsHardBreakStep ==
    /\ InParagraph
    /\ UNCHANGED <<open, tags>>
    /\ lastStore' # lastStore
    /\ status' = "running"

\* the flushes of the open paragraph so far form a chain from its start to
\* the cursor
FlushedUpToCursor ==
    InParagraph /\ status = "running" =>
        \/ paragraph = OpenParagraph.start
        \/ /\ lastStore.tag # "NotCalled"
           /\ lastStore.range.end = paragraph
           /\ lastStore.range.start >= OpenParagraph.start

IsNoOpStep ==
    /\ pos' # pos
    /\ UNCHANGED <<open, tags, lastStore, status>>

\* C24: Text, Code, Html, FootnoteReference, SoftBreak, Rule and
\* TaskListMarker events leave the paragraph cursor, the unbreakable stack
\* and the accumulated suggestions unchanged.
C24_NoOpEventsChangeNothing ==
    [][IsNoOpStep => UNCHANGED <<paragraph, unbreakable_stack, unbreakables, acc>>]_vars

\* the text of an unbreakable construct of a paragraph was passed by a text
\* event while the construct was on the stack
C24_Witness ==
    /\ status = "running"
    /\ tags = 2
    /\ Len(open) = 2
    /\ open[2].kind = "Inline"
    /\ pos = open[2].end
    /\ pos > open[2].start + 1
    /\ unbreakable_stack = <<Range(open[2].start, open[2].end)>>
    /\ lastStore.tag = "NotCalled"

\* C25: the Span of a reflow suggestion runs from the start of the first
\* Span covering the paragraph's Range to the end of the last one, the
\* start column being incremented by one exactly for the TripleSlash and
\* DoubleSlashEM variants.
C25_SpanOfSuggestion ==
    lastStore.tag = "Ok" =>
        LET span == lastStore.suggestion.span
            first == LastSpans[1]
            last == LastSpans[Len(LastSpans)]
        IN  /\ span.start.line = first.start.line
            /\ span.start.column = first.start.column
                   + (IF chunk.variant \in {"TripleSlash", "DoubleSlashEM"} THEN 1 ELSE 0)
            /\ span.end = last.end

\* a suggestion for a paragraph over two literals of a `///` comment
C25_Witness ==
    /\ lastStore.tag = "Ok"
    /\ chunk.variant = "TripleSlash"
    /\ Len(LastSpans) >= 2
    /\ lastStore.suggestion.span.end = LastSpans[Len(LastSpans)].end
    /\ LastSpans[1].end # LastSpans[Len(LastSpans)].end

\* a step that is the end event of an unbreakable construct, whether the
\* debug assertions of its arm pass or fail
IsEndInlineStep ==
    /\ open # <<>>
    /\ open[Len(open)].kind = "Inline"
    /\ \/ open' = SubSeq(open, 1, Len(open) - 1)
       \/ status' = "panicked"

\* C26: whenever the end event of an unbreakable construct arrives while
\* the depth of the unbreakable stack is not one, the Range on top of the
\* stack contains the start offset and the last offset of the construct.
C26_DebugAssertionsHold ==
    [][IsEndInlineStep =>
          ParentContains(Range(open[Len(open)].start, open[Len(open)].end))]_vars

\* a step that hands store_suggestion a non-empty Range
IsStoreStep ==
    /\ lastStore' # lastStore
    /\ lastStore'.range.start < lastStore'.range.end

\* C27: every non-empty Range passed to store_suggestion lies inside a
\* single paragraph, between its start event and its end event; a hard
\* break outside a paragraph hands on no text.
C27_StoredRangeInsideParagraph ==
    [][IsStoreStep =>
          /\ InParagraph
          /\ OpenParagraph.start <= lastStore'.range.start
          /\ lastStore'.range.end <= OpenParagraph.end]_vars

\* ========================================================================
\* Claims about the sub-configurations (specification Spec)
\* ========================================================================
\* the detectors for which invoke_checker_inner is called in some pass
Dispatchable == {d \in Detector : \E i \in 1..Len(DispatchedOrder) : DispatchedOrder[i] = d}

====
